---- MODULE Spec2Model ----
(***************************************************************************)
(* Civic-Eye AI service: the trust score engine of app.py (sub-analyzers,  *)
(* trust aggregator, severity/priority classifier, the /analyze pipeline)  *)
(* and the two prototype variants severity.py and ela.py.                  *)
(*                                                                         *)
(* Numbers.  The program computes with Python floats.  Here every score is *)
(* an exact rational kept as an integer numerator:                         *)
(*   - a trust score is kept in hundredths (app.py rounds it to 2 places), *)
(*   - a sub-score is kept in units of 1/ElaDen, the denominator of        *)
(*     100 - max_diff/2.55 = (5100 - 20*max_diff)/51.                      *)
(* Strings that the program lower-cases or searches are sequences of       *)
(* one-character strings, so that lower() and `in` are computed.           *)
(***************************************************************************)
EXTENDS Integers, Sequences, FiniteSets, TLC

VARIABLES
    sev_call,     \* the classifier call being made: [fn, issue_type, trust_score]
    sev_ret,      \* what it returned: [base_severity, priority], or NoRet
    sev_prev,     \* an earlier call of the same classifier on the same issue type
    trust_call,   \* the analyzer or aggregator call being made
    trust_ret,    \* what it returned, or NoRet
    request,      \* the last POST /analyze: [body, args, log_writable]
    response,     \* the response to it
    debug_log,    \* number of lines in the debug log file analyze() appends to
    earlier,      \* an earlier scored exchange [request, response], kept to compare
    ela_job,      \* per concurrent ELA invocation: [impl, uploaded, image]
    ela_pc,       \* per invocation: the step it is at
    ela_local,    \* per invocation: [original, buffer, handle, score]
    temp_path,    \* the directory entry "temp_ela.jpg": an inode, or NoFile
    inodes        \* file contents by inode (the invocation that created it)

sev_vars == <<sev_call, sev_ret, sev_prev>>
trust_vars == <<trust_call, trust_ret>>
fn_vars == <<sev_call, sev_ret, sev_prev, trust_call, trust_ret>>
http_vars == <<request, response, debug_log, earlier>>
ela_vars == <<ela_job, ela_pc, ela_local, temp_path, inodes>>
vars == <<sev_call, sev_ret, sev_prev, trust_call, trust_ret,
          request, response, debug_log, earlier,
          ela_job, ela_pc, ela_local, temp_path, inodes>>

NoRet == [none |-> TRUE]
NoCall == [fn |-> "none"]

-----------------------------------------------------------------------------
(* Strings *)

UpperChars == <<"A","B","C","D","E","F","G","H","I","J","K","L","M",
                "N","O","P","Q","R","S","T","U","V","W","X","Y","Z">>
LowerChars == <<"a","b","c","d","e","f","g","h","i","j","k","l","m",
                "n","o","p","q","r","s","t","u","v","w","x","y","z">>

LowerChar(c) ==
    IF \E i \in DOMAIN UpperChars : UpperChars[i] = c
    THEN LowerChars[CHOOSE i \in DOMAIN UpperChars : UpperChars[i] = c]
    ELSE c

\* str.lower()
lower(s) == [i \in DOMAIN s |-> LowerChar(s[i])]

\* `sub in s` on strings
Contains(s, sub) ==
    \E i \in 0..(Len(s) - Len(sub)) :
        \A j \in 1..Len(sub) : s[i + j] = sub[j]

\* dict.get(key, default); a dict is a set of <<key, value>> pairs with unique keys
DictGet(dict, key, default) ==
    IF \E kv \in dict : kv[1] = key
    THEN (CHOOSE kv \in dict : kv[1] = key)[2]
    ELSE default

s_accident   == <<"a","c","c","i","d","e","n","t">>
s_fire       == <<"f","i","r","e">>
s_road_block == <<"r","o","a","d","_","b","l","o","c","k">>
s_pothole    == <<"p","o","t","h","o","l","e">>
s_garbage    == <<"g","a","r","b","a","g","e">>
s_water_leak == <<"w","a","t","e","r","_","l","e","a","k">>
s_other      == <<"o","t","h","e","r">>

\* Issue-type strings a caller may pass: the known tags, case variants of
\* them, and strings outside the known set (the empty string included).
IssueInputs ==
    { s_accident, s_fire, s_road_block, s_pothole, s_garbage, s_water_leak,
      s_other,
      <<"F","I","R","E">>, <<"F","i","r","e">>,
      <<"A","c","c","i","d","e","n","t">>,
      <<"R","o","a","d","_","B","l","o","c","k">>,
      <<"G","A","R","B","A","G","E">>,
      <<"O","t","h","e","r">>,
      <<"W","a","t","e","r","_","L","e","a","k">>,
      <<"s","i","n","k","h","o","l","e">>,
      <<"F","l","o","o","d">>,
      <<"f","i","r","e","s">>,
      <<"r","o","a","d"," ","b","l","o","c","k">>,
      << >> }

-----------------------------------------------------------------------------
(* Trust scores, in hundredths *)

\* round(trust_score, 2): a trust score has two decimal places
Scale == 100

Min(a, b) == IF a < b THEN a ELSE b
Max(a, b) == IF a > b THEN a ELSE b

\* Every whole trust score in [0,100] and the two-decimal neighbours of the
\* bracket boundaries and of the end points.
TrustScores ==
    { Scale * k : k \in 0..100 }
    \cup { Scale * b + d : b \in {40, 60, 80}, d \in {-1, 1} }
    \cup { 1, Scale * 100 - 1 }

-----------------------------------------------------------------------------
(* Severity/priority classifier, app.py *)

severity_map ==
    { <<s_fire, 95>>, <<s_accident, 90>>, <<s_road_block, 80>>,
      <<s_water_leak, 70>>, <<s_pothole, 60>>, <<s_garbage, 50>>,
      <<s_other, 40>> }

\* the table lookup with another default than the one "other" maps to
table_severity_default_50(issue_type) ==
    DictGet(severity_map, lower(issue_type), 50)

\* the table lookup, with the default for unrecognised types
table_severity(issue_type) == DictGet(severity_map, lower(issue_type), 40)

\* discount with the bracket boundaries taken inclusively (<= for <)
discount_inclusive(trust_score, base) ==
    IF trust_score <= 40 * Scale THEN Max(20, base - 30)
    ELSE IF trust_score <= 60 * Scale THEN Max(30, base - 15)
    ELSE IF trust_score <= 80 * Scale THEN Max(40, base - 5)
    ELSE base

\* discount with the three floors in the opposite order
discount_floors_swapped(trust_score, base) ==
    IF trust_score < 40 * Scale THEN Max(40, base - 30)
    ELSE IF trust_score < 60 * Scale THEN Max(30, base - 15)
    ELSE IF trust_score < 80 * Scale THEN Max(20, base - 5)
    ELSE base

\* the trust discount
discount(trust_score, base) ==
    IF trust_score < 40 * Scale THEN Max(20, base - 30)
    ELSE IF trust_score < 60 * Scale THEN Max(30, base - 15)
    ELSE IF trust_score < 80 * Scale THEN Max(40, base - 5)
    ELSE base

\* the priority tier with HIGH starting above 85 (> for >=)
priority_of_strict(base_severity) ==
    IF base_severity > 85 THEN "HIGH"
    ELSE IF base_severity >= 60 THEN "MEDIUM"
    ELSE "LOW"

\* the priority tier
priority_of(base_severity) ==
    IF base_severity >= 85 THEN "HIGH"
    ELSE IF base_severity >= 60 THEN "MEDIUM"
    ELSE "LOW"

calculate_severity_and_priority(trust_score, issue_type) ==
    LET adjusted == discount(trust_score, table_severity(issue_type))
        base_severity == Max(0, Min(100, adjusted))
    IN  [base_severity |-> base_severity, priority |-> priority_of(base_severity)]

-----------------------------------------------------------------------------
(* Severity/priority classifier, severity.py (prototype variant) *)

severity_py_map ==
    { <<s_accident, 90>>, <<s_fire, 95>>, <<s_road_block, 80>>,
      <<s_pothole, 60>>, <<s_garbage, 50>>, <<s_water_leak, 55>> }

severity_py_priority(base_severity) ==
    IF base_severity >= 85 THEN "CRITICAL"
    ELSE IF base_severity >= 70 THEN "HIGH"
    ELSE IF base_severity >= 50 THEN "MEDIUM"
    ELSE "LOW"

severity_py_calculate(issue_type, trust_score) ==
    LET base == DictGet(severity_py_map, lower(issue_type), 40)
        adjusted == IF trust_score < 40 * Scale THEN base - 20
                    ELSE IF trust_score < 60 * Scale THEN base - 10
                    ELSE base
        base_severity == Max(0, Min(100, adjusted))
    IN  [base_severity |-> base_severity,
         priority |-> severity_py_priority(base_severity)]

-----------------------------------------------------------------------------
(* Images, as the analyzers see them *)

\* A sub-score is kept as a numerator over ElaDen: 2.55 = ElaDen/20.
ElaDen == 51

Sub(v) == v * ElaDen

\* round-half-to-even of the rational n/d (n >= 0, d > 0), as round(x, 2)
\* does on a value already scaled to hundredths
RoundHalfEven(n, d) ==
    LET q == n \div d
        r == n % d
    IN  IF 2 * r < d THEN q
        ELSE IF 2 * r > d THEN q + 1
        ELSE IF q % 2 = 0 THEN q ELSE q + 1

AnalyzerNames == {"ela", "shadow", "quality"}

\* A pixel matrix (image_cv), by what the analyzers measure on it:
\*   raises       the analyzers inside whose try block an exception is raised
\*   jpeg_error   largest per-channel |original - recompressed at quality 90|
\*   contours     number of external contours of the Canny edge map
\*   edge_pixels  number of non-zero pixels of the edge map
\*   pixels       height * width
\*   blur         variance of the Laplacian
\*   noise        standard deviation of the grey levels
\*   brightness   mean grey level
BaseImage ==
    [raises |-> {}, jpeg_error |-> 0, contours |-> 40, edge_pixels |-> 1500,
     pixels |-> 10000, blur |-> 500, noise |-> 20, brightness |-> 120]

ShadowCases == { <<0, 0>>, <<2, 30>>, <<3, 99>>, <<3, 100>>, <<40, 1500>>,
                 <<40, 5000>>, <<40, 5001>>, <<3, 10000>> }
BlurCases == {0, 49, 50, 99, 100, 500}
NoiseCases == {0, 35, 36, 50, 51, 90}
BrightnessCases == {0, 29, 30, 49, 50, 120, 200, 201, 220, 221, 255}
JpegErrorCases == 0..26 \cup {128, 255}

\* EXIF tag names, PIL.ExifTags.TAGS restricted to the ids used here
TAGS == { <<11, "ProcessingSoftware">>, <<271, "Make">>, <<305, "Software">>,
          <<306, "DateTime">> }

s_photoshop == <<"p","h","o","t","o","s","h","o","p">>
s_gimp      == <<"g","i","m","p">>
s_paint     == <<"p","a","i","n","t">>
s_editor    == <<"e","d","i","t","o","r">>

editors == { s_photoshop, s_gimp, s_paint, s_editor }

\* EXIF dictionaries: sequences of <<tag_id, data>> with distinct tag ids
ExifCases ==
    { << >>,
      << <<271, <<"C","a","n","o","n">> >> >>,
      << <<305, <<"A","d","o","b","e"," ","P","h","o","t","o","s","h","o","p">> >> >>,
      << <<271, <<"C","a","n","o","n">> >>, <<305, <<"G","I","M","P"," ","2">> >> >>,
      << <<305, <<"M","S"," ","P","a","i","n","t">> >>, <<306, <<"2","0","2","4">> >> >>,
      << <<305, <<"P","a","i","n","t"," ","E","d","i","t","o","r">> >> >>,
      << <<305, <<"C","a","n","o","n"," ","F","W">> >> >>,
      << <<305, << >> >> >>,
      << <<11, <<"g","i","m","p">> >>, <<271, <<"C","a","n","o","n">> >> >>,
      << <<11, <<"g","i","m","p">> >>, <<305, <<"g","i","m","p">> >> >> }

\* What check_metadata may be handed: None, a pixel matrix, or a PIL image
\* (whose getexif() raises, or returns an EXIF dictionary).
NoneSource == [kind |-> "none", exif_raises |-> FALSE, exif |-> << >>]
ArraySource == [kind |-> "ndarray", exif_raises |-> FALSE, exif |-> << >>]
PilImage(raises, exif) == [kind |-> "image", exif_raises |-> raises, exif |-> exif]

MetaSources ==
    { NoneSource, ArraySource, PilImage(TRUE, << >>) }
    \cup { PilImage(FALSE, e) : e \in ExifCases }

-----------------------------------------------------------------------------
(* Sub-analyzers, app.py.  Each returns a sub-score numerator over ElaDen. *)

\* ImageEnhance.Brightness(...).enhance(10), then getextrema(): the largest
\* difference times 10, clipped to the channel maximum
max_diff_of(image_array) == Min(255, 10 * image_array.jpeg_error)

\* ELA whose except branch returns 0 instead of the neutral 50
perform_ela_analysis_zero_fallback(image_array) ==
    IF "ela" \in image_array.raises THEN Sub(0)
    ELSE Max(0, Min(Sub(100), Sub(100) - 20 * max_diff_of(image_array)))

\* ELA that diffs against a recompressed artifact left by the previous
\* request when there is one
perform_ela_analysis_stale(image_array) ==
    IF "ela" \in image_array.raises THEN Sub(50)
    ELSE IF response # NoRet /\ request.body.imdecode = "ok"
    THEN Max(0, Min(Sub(100),
                    Sub(100) - 20 * max_diff_of(request.body.image_cv)))
    ELSE Max(0, Min(Sub(100), Sub(100) - 20 * max_diff_of(image_array)))

perform_ela_analysis(image_array) ==
    IF "ela" \in image_array.raises THEN Sub(50)
    ELSE Max(0, Min(Sub(100), Sub(100) - 20 * max_diff_of(image_array)))

\* the loop over the EXIF entries, from entry i on
RECURSIVE exif_deductions(_, _, _)
exif_deductions(exifdata, i, metadata_score) ==
    IF i > Len(exifdata) THEN metadata_score
    ELSE LET tag_id == exifdata[i][1]
             tag == DictGet(TAGS, tag_id, tag_id)
             data == exifdata[i][2]
             software_lower == lower(data)
             hit == /\ tag = "Software"
                    /\ Len(data) > 0
                    /\ \E editor \in editors : Contains(software_lower, editor)
         IN  exif_deductions(exifdata, i + 1,
                             IF hit THEN metadata_score - 25 ELSE metadata_score)

check_metadata(image_source) ==
    IF image_source.kind \notin {"ndarray", "image"} THEN Sub(70)
    ELSE IF image_source.exif_raises THEN Sub(70)
    ELSE LET exifdata == IF image_source.kind = "ndarray" THEN << >>
                         ELSE image_source.exif
         IN  IF Len(exifdata) = 0 THEN Sub(60)
             ELSE Sub(Max(50, exif_deductions(exifdata, 1, 100)))

analyze_shadows(image) ==
    IF "shadow" \in image.raises THEN Sub(70)
    ELSE IF image.contours < 3 THEN Sub(55)
    ELSE LET sparse == image.edge_pixels * 100 < image.pixels
             dense == image.edge_pixels * 2 > image.pixels
             shadow_score == IF sparse \/ dense THEN 80 - 20 ELSE 80
         IN  Sub(Max(50, shadow_score))

analyze_quality(image) ==
    IF "quality" \in image.raises THEN Sub(70)
    ELSE LET blur_penalty == IF image.blur < 50 THEN 30
                             ELSE IF image.blur < 100 THEN 15 ELSE 0
             noise_penalty == IF image.noise > 50 THEN 20
                              ELSE IF image.noise > 35 THEN 10 ELSE 0
             b == image.brightness
             brightness_penalty == IF b < 30 \/ b > 220 THEN 15
                                   ELSE IF b < 50 \/ b > 200 THEN 8 ELSE 0
             quality_score == 100 - blur_penalty - noise_penalty
                                  - brightness_penalty
         IN  Sub(Max(30, Min(100, quality_score)))

-----------------------------------------------------------------------------
(* Trust aggregator, app.py *)

\* the issue-type multipliers, in hundredths
issue_weights ==
    { <<s_accident, 105>>, <<s_fire, 108>>, <<s_road_block, 102>>,
      <<s_pothole, 100>>, <<s_garbage, 98>>, <<s_water_leak, 100>>,
      <<s_other, 100>> }

issue_weight(issue_type) == DictGet(issue_weights, lower(issue_type), 100)

\* 0.35*ela + 0.25*metadata + 0.20*shadow + 0.20*quality, times 100
weighted_sum(ela_score, metadata_score, shadow_score, quality_score) ==
    35 * ela_score + 25 * metadata_score + 20 * shadow_score
        + 20 * quality_score

\* the aggregator with the clamp applied before the multiplier
aggregate_clamp_first(ela_score, metadata_score, shadow_score, quality_score, issue_type) ==
    LET weight == issue_weight(issue_type)
        sum == weighted_sum(ela_score, metadata_score, shadow_score,
                            quality_score)
        product == Max(0, Min(100 * 100 * ElaDen, sum)) * weight
    IN  [trust_score |-> RoundHalfEven(product, 100 * ElaDen),
         explanation |->
            [ela_score |-> RoundHalfEven(ela_score * Scale, ElaDen),
             metadata_score |-> RoundHalfEven(metadata_score * Scale, ElaDen),
             shadow_score |-> RoundHalfEven(shadow_score * Scale, ElaDen),
             quality_score |-> RoundHalfEven(quality_score * Scale, ElaDen),
             issue_type_weight |-> weight]]

\* lines 171-205: the weighted sum, the multiplier, the clamp, the rounding.
\* product is the trust score times 100 * 100 * ElaDen.
aggregate(ela_score, metadata_score, shadow_score, quality_score, issue_type) ==
    LET weight == issue_weight(issue_type)
        product == weighted_sum(ela_score, metadata_score, shadow_score,
                                quality_score) * weight
        clamped == Max(0, Min(100 * 100 * 100 * ElaDen, product))
    IN  [trust_score |-> RoundHalfEven(clamped, 100 * ElaDen),
         explanation |->
            [ela_score |-> RoundHalfEven(ela_score * Scale, ElaDen),
             metadata_score |-> RoundHalfEven(metadata_score * Scale, ElaDen),
             shadow_score |-> RoundHalfEven(shadow_score * Scale, ElaDen),
             quality_score |-> RoundHalfEven(quality_score * Scale, ElaDen),
             issue_type_weight |-> weight]]

calculate_trust_score(image_cv, image_pil, issue_type) ==
    aggregate(perform_ela_analysis(image_cv), check_metadata(image_pil),
              analyze_shadows(image_cv), analyze_quality(image_cv), issue_type)

-----------------------------------------------------------------------------
(* Calls of the classifiers *)

ClassifierFns == {"app", "severity_py"}

SevInit ==
    /\ sev_call \in [fn : ClassifierFns, issue_type : IssueInputs,
                     trust_score : TrustScores]
    /\ sev_ret = NoRet
    /\ sev_prev = NoRet

\* app.py: calculate_severity_and_priority(trust_score, issue_type)
Classify ==
    /\ sev_call.fn = "app"
    /\ sev_ret = NoRet
    /\ sev_ret' = calculate_severity_and_priority(sev_call.trust_score,
                                                  sev_call.issue_type)
    /\ UNCHANGED <<sev_call, sev_prev, trust_vars, http_vars, ela_vars>>

\* severity.py: calculate_severity_and_priority(issue_type, trust_score)
ClassifySeverityPy ==
    /\ sev_call.fn = "severity_py"
    /\ sev_ret = NoRet
    /\ sev_ret' = severity_py_calculate(sev_call.issue_type,
                                        sev_call.trust_score)
    /\ UNCHANGED <<sev_call, sev_prev, trust_vars, http_vars, ela_vars>>

\* a second call of app.py's classifier, same issue type, any trust score
ClassifyAgain ==
    /\ sev_call.fn = "app"
    /\ sev_ret # NoRet
    /\ sev_prev = NoRet
    /\ \E t \in TrustScores :
        /\ sev_call' = [sev_call EXCEPT !.trust_score = t]
        /\ sev_ret' = calculate_severity_and_priority(t, sev_call.issue_type)
    /\ sev_prev' = [trust_score |-> sev_call.trust_score,
                    base_severity |-> sev_ret.base_severity,
                    priority |-> sev_ret.priority]
    /\ UNCHANGED <<trust_vars, http_vars, ela_vars>>

-----------------------------------------------------------------------------
(* Calls of the analyzers and of the aggregator *)

ImageWith(raises, jpeg_error, shadow, blur, noise, brightness) ==
    [raises |-> raises, jpeg_error |-> jpeg_error, contours |-> shadow[1],
     edge_pixels |-> shadow[2], pixels |-> BaseImage.pixels, blur |-> blur,
     noise |-> noise, brightness |-> brightness]

TrustCall(fn, image_cv, image_pil, issue_type) ==
    [fn |-> fn, image_cv |-> image_cv, image_pil |-> image_pil,
     issue_type |-> issue_type]

ElaCalls ==
    { TrustCall("perform_ela_analysis",
                [BaseImage EXCEPT !.raises = r, !.jpeg_error = e],
                NoneSource, s_other) :
        r \in {{}, {"ela"}}, e \in JpegErrorCases }

MetadataCalls ==
    { TrustCall("check_metadata", BaseImage, src, s_other) : src \in MetaSources }

ShadowCalls ==
    { TrustCall("analyze_shadows",
                [BaseImage EXCEPT !.raises = r, !.contours = sh[1],
                                  !.edge_pixels = sh[2]],
                NoneSource, s_other) :
        r \in {{}, {"shadow"}}, sh \in ShadowCases }

QualityCalls ==
    { TrustCall("analyze_quality",
                [BaseImage EXCEPT !.raises = r, !.blur = bl, !.noise = n,
                                  !.brightness = br],
                NoneSource, s_other) :
        r \in {{}, {"quality"}}, bl \in BlurCases, n \in NoiseCases,
        br \in BrightnessCases }

\* the pixel matrices handed to calculate_trust_score: every combination of
\* raising analyzers, on clean, slightly and heavily recompressing images
ScoreImages ==
    { ImageWith(r, e, sh, q[1], q[2], q[3]) :
        r \in SUBSET AnalyzerNames,
        e \in {0, 1, 26},
        sh \in { <<0, 0>>, <<40, 1500>>, <<40, 50>> },
        q \in { <<500, 20, 120>>, <<10, 60, 10>>, <<70, 40, 210>> } }

ScoreCalls ==
    { TrustCall("calculate_trust_score", cv, pil, issue) :
        cv \in ScoreImages, pil \in MetaSources, issue \in IssueInputs }

TrustInit ==
    /\ trust_call \in ElaCalls \cup MetadataCalls \cup ShadowCalls
                      \cup QualityCalls \cup ScoreCalls
    /\ trust_ret = NoRet

CallEla ==
    /\ trust_call.fn = "perform_ela_analysis"
    /\ trust_ret = NoRet
    /\ trust_ret' = [score |-> perform_ela_analysis(trust_call.image_cv)]
    /\ UNCHANGED <<trust_call, sev_vars, http_vars, ela_vars>>

CallMetadata ==
    /\ trust_call.fn = "check_metadata"
    /\ trust_ret = NoRet
    /\ trust_ret' = [score |-> check_metadata(trust_call.image_pil)]
    /\ UNCHANGED <<trust_call, sev_vars, http_vars, ela_vars>>

CallShadows ==
    /\ trust_call.fn = "analyze_shadows"
    /\ trust_ret = NoRet
    /\ trust_ret' = [score |-> analyze_shadows(trust_call.image_cv)]
    /\ UNCHANGED <<trust_call, sev_vars, http_vars, ela_vars>>

CallQuality ==
    /\ trust_call.fn = "analyze_quality"
    /\ trust_ret = NoRet
    /\ trust_ret' = [score |-> analyze_quality(trust_call.image_cv)]
    /\ UNCHANGED <<trust_call, sev_vars, http_vars, ela_vars>>

CallTrustScore ==
    /\ trust_call.fn = "calculate_trust_score"
    /\ trust_ret = NoRet
    /\ trust_ret' = calculate_trust_score(trust_call.image_cv,
                                          trust_call.image_pil,
                                          trust_call.issue_type)
    /\ UNCHANGED <<trust_call, sev_vars, http_vars, ela_vars>>

-----------------------------------------------------------------------------
(* The functions called one at a time: a classifier or an analyzer *)

\* number of ELA invocations running at once
NumWorkers == 2

Workers == 1..NumWorkers
NoFile == 0

NoLocal == [original |-> NoRet, buffer |-> -1, handle |-> NoFile, score |-> -1]

ElaIdle ==
    /\ ela_job = [w \in Workers |-> [impl |-> "app", uploaded |-> TRUE,
                                     image |-> [px |-> 100, err |-> 0]]]
    /\ ela_pc = [w \in Workers |-> "done"]
    /\ ela_local = [w \in Workers |-> NoLocal]
    /\ temp_path = NoFile
    /\ inodes = [w \in Workers |-> -1]

HttpIdle ==
    /\ request = NoCall
    /\ response = NoRet
    /\ debug_log = 0
    /\ earlier = NoRet

FnInit ==
    /\ \/ SevInit /\ trust_call = NoCall /\ trust_ret = NoRet
       \/ TrustInit /\ sev_call = NoCall /\ sev_ret = NoRet /\ sev_prev = NoRet
    /\ HttpIdle
    /\ ElaIdle

FnNext ==
    \/ Classify
    \/ ClassifySeverityPy
    \/ ClassifyAgain
    \/ CallEla
    \/ CallMetadata
    \/ CallShadows
    \/ CallQuality
    \/ CallTrustScore

SpecFn == FnInit /\ [][FnNext]_vars

-----------------------------------------------------------------------------
(* POST /analyze, app.py *)

\* The debug log analyze() appends to may hold this many lines.
MaxLogLines == 18

\* A request body, by what the two decoders make of it:
\*   imdecode  "ok": cv2.imdecode returns the pixel matrix image_cv;
\*             "none": it returns None; "raises": it raises (empty buffer)
\*   pil_ok    Image.open parses the bytes, giving image_pil
Body(imdecode, pil_ok, image_cv, image_pil) ==
    [imdecode |-> imdecode, pil_ok |-> pil_ok, image_cv |-> image_cv,
     image_pil |-> image_pil]

s_camera == <<"C","a","n","o","n">>

Bodies ==
    { \* an empty body: OpenCV raises on an empty buffer, or returns None
      Body("raises", FALSE, BaseImage, NoneSource),
      Body("none", FALSE, BaseImage, NoneSource),
      \* a format only PIL reads
      Body("none", TRUE, BaseImage, PilImage(FALSE, << >>)),
      \* a camera photo
      Body("ok", TRUE, ImageWith({}, 1, <<40, 1500>>, 500, 20, 120),
           PilImage(FALSE, << <<271, s_camera>> >>)),
      \* an edited photo
      Body("ok", TRUE, ImageWith({}, 13, <<40, 1500>>, 70, 40, 120),
           PilImage(FALSE, << <<305, <<"G","I","M","P"," ","2">> >> >>)),
      \* a flat colour fill without metadata
      Body("ok", TRUE, ImageWith({}, 0, <<0, 0>>, 0, 0, 255),
           PilImage(FALSE, << >>)),
      \* a format only OpenCV reads
      Body("ok", FALSE, ImageWith({}, 2, <<40, 1500>>, 500, 20, 120),
           NoneSource),
      \* an image whose EXIF block is malformed and that JPEG cannot hold
      Body("ok", TRUE, ImageWith({"ela"}, 0, <<40, 50>>, 500, 60, 40),
           PilImage(TRUE, << >>)) }

\* request.args: no issue_type, or one
ArgsCases ==
    { {} } \cup
    { { <<"issue_type", t>> } :
        t \in { <<"F","I","R","E">>, <<"s","i","n","k","h","o","l","e">> } }

Requests ==
    [body : Bodies, args : ArgsCases, log_writable : BOOLEAN]

ErrorResponse(status, error) == [status |-> status, error |-> error]

\* The handler: the response, and the number of lines it appends to the
\* debug log.  The first append (line 250) is outside the try block, so an
\* unwritable log file ends the request in the framework's 500 response.
analyze(req) ==
    IF ~req.log_writable
    THEN [response |-> ErrorResponse(500, "Internal Server Error"), lines |-> 0]
    ELSE IF req.body.imdecode = "raises"
    THEN [response |-> ErrorResponse(500, "Failed to analyze image"),
          lines |-> 3]
    ELSE IF req.body.imdecode = "none"
    THEN [response |-> ErrorResponse(400, "Invalid image data"), lines |-> 3]
    ELSE LET image_cv == req.body.image_cv
             image_pil == IF req.body.pil_ok THEN req.body.image_pil
                          ELSE PilImage(FALSE, << >>)
             issue_type == DictGet(req.args, "issue_type", s_other)
             trust_result == calculate_trust_score(image_cv, image_pil,
                                                   issue_type)
             sp == calculate_severity_and_priority(trust_result.trust_score,
                                                   issue_type)
         IN  [response |->
                [status |-> 200,
                 trust_score |-> trust_result.trust_score,
                 base_severity |-> sp.base_severity,
                 priority |-> sp.priority,
                 explanation |-> trust_result.explanation],
              lines |-> 6]

FnIdle ==
    /\ sev_call = NoCall
    /\ sev_ret = NoRet
    /\ sev_prev = NoRet
    /\ trust_call = NoCall
    /\ trust_ret = NoRet

Init == FnIdle /\ HttpIdle /\ ElaIdle

\* One request, start to response.  earlier keeps, or not, the scored
\* exchange that this one replaces.
Analyze ==
    \E req \in Requests, keep \in BOOLEAN :
        LET r == analyze(req)
        IN  /\ debug_log + r.lines <= MaxLogLines
            /\ request' = req
            /\ response' = r.response
            /\ debug_log' = debug_log + r.lines
            /\ earlier' = IF keep /\ response # NoRet /\ response.status = 200
                          THEN [request |-> request, response |-> response]
                          ELSE earlier
            /\ UNCHANGED <<sev_vars, trust_vars, ela_vars>>

Next == Analyze

Spec == Init /\ [][Next]_vars

-----------------------------------------------------------------------------
(* Concurrent ELA invocations: ela.py (prototype variant, recompresses      *)
(* through the file "temp_ela.jpg") and app.py (recompresses through its   *)
(* own io.BytesIO)                                                         *)

\* An image, by one representative channel value px and the loss err that
\* JPEG at quality 90 inflicts on it.
ElaImages == { [px |-> 100, err |-> 0], [px |-> 200, err |-> 2] }

\* save(..., "JPEG", quality=90): the stored channel value
Recompress(image) == image.px - image.err

\* ImageChops.difference, enhance(10), getextrema
ela_max_diff(original, recompressed_px) ==
    Min(255, 10 * (IF original.px >= recompressed_px
                   THEN original.px - recompressed_px
                   ELSE recompressed_px - original.px))

\* ela.py line 35
ela_py_score(max_diff) == Max(0, Min(100, 100 - max_diff))

ElaJobs == [impl : {"ela_py", "app"}, uploaded : BOOLEAN, image : ElaImages]

ElaInit ==
    /\ ela_job \in [Workers -> ElaJobs]
    /\ ela_pc = [w \in Workers |-> "start"]
    /\ ela_local = [w \in Workers |-> NoLocal]
    /\ temp_path = NoFile
    /\ inodes = [w \in Workers |-> -1]
    /\ FnIdle
    /\ HttpIdle

ElaFinish(w, score) ==
    /\ ela_local' = [ela_local EXCEPT ![w].score = score]
    /\ ela_pc' = [ela_pc EXCEPT ![w] = "done"]

\* ela.py lines 11-17: the uploads/ file is missing (return 50), or is opened
ElaPyStart(w) ==
    /\ ela_job[w].impl = "ela_py"
    /\ ela_pc[w] = "start"
    /\ IF ~ela_job[w].uploaded
       THEN ElaFinish(w, 50)
       ELSE /\ ela_local' = [ela_local EXCEPT ![w].original = ela_job[w].image]
            /\ ela_pc' = [ela_pc EXCEPT ![w] = "save"]
    /\ UNCHANGED <<temp_path, inodes, ela_job, sev_vars, trust_vars, http_vars>>

\* ela.py lines 20-21: save to temp_ela.jpg, creating or overwriting it
ElaPySave(w) ==
    /\ ela_job[w].impl = "ela_py"
    /\ ela_pc[w] = "save"
    /\ LET inode == IF temp_path = NoFile THEN w ELSE temp_path
       IN  /\ temp_path' = inode
           /\ inodes' = [inodes EXCEPT
                            ![inode] = Recompress(ela_local[w].original)]
    /\ ela_pc' = [ela_pc EXCEPT ![w] = "open"]
    /\ UNCHANGED <<ela_local, ela_job, sev_vars, trust_vars, http_vars>>

\* ela.py line 23: Image.open(temp_path), lazily; a missing file raises and
\* the except branch returns 50
ElaPyOpen(w) ==
    /\ ela_job[w].impl = "ela_py"
    /\ ela_pc[w] = "open"
    /\ IF temp_path = NoFile
       THEN ElaFinish(w, 50)
       ELSE /\ ela_local' = [ela_local EXCEPT ![w].handle = temp_path]
            /\ ela_pc' = [ela_pc EXCEPT ![w] = "diff"]
    /\ UNCHANGED <<temp_path, inodes, ela_job, sev_vars, trust_vars, http_vars>>

\* ela.py lines 26-35: the pixel data is read through the open handle now
ElaPyDiff(w) ==
    /\ ela_job[w].impl = "ela_py"
    /\ ela_pc[w] = "diff"
    /\ LET read == inodes[ela_local[w].handle]
       IN  ela_local' = [ela_local EXCEPT
                ![w].buffer = read,
                ![w].score = ela_py_score(ela_max_diff(ela_local[w].original,
                                                       read))]
    /\ ela_pc' = [ela_pc EXCEPT ![w] = "exists"]
    /\ UNCHANGED <<temp_path, inodes, ela_job, sev_vars, trust_vars, http_vars>>

\* ela.py line 38: os.path.exists(temp_path)
ElaPyExists(w) ==
    /\ ela_job[w].impl = "ela_py"
    /\ ela_pc[w] = "exists"
    /\ ela_pc' = [ela_pc EXCEPT ![w] = IF temp_path = NoFile THEN "done"
                                       ELSE "remove"]
    /\ UNCHANGED <<ela_local, temp_path, inodes, ela_job, sev_vars, trust_vars, http_vars>>

\* ela.py line 39: os.remove(temp_path); a file already removed raises and
\* the except branch returns 50
ElaPyRemove(w) ==
    /\ ela_job[w].impl = "ela_py"
    /\ ela_pc[w] = "remove"
    /\ IF temp_path = NoFile
       THEN ElaFinish(w, 50) /\ UNCHANGED temp_path
       ELSE /\ temp_path' = NoFile
            /\ ela_pc' = [ela_pc EXCEPT ![w] = "done"]
            /\ UNCHANGED ela_local
    /\ UNCHANGED <<inodes, ela_job, sev_vars, trust_vars, http_vars>>

\* app.py lines 32-34: save into the invocation's own BytesIO
ElaAppSave(w) ==
    /\ ela_job[w].impl = "app"
    /\ ela_pc[w] = "start"
    /\ ela_local' = [ela_local EXCEPT
            ![w].original = ela_job[w].image,
            ![w].buffer = Recompress(ela_job[w].image)]
    /\ ela_pc' = [ela_pc EXCEPT ![w] = "diff"]
    /\ UNCHANGED <<temp_path, inodes, ela_job, sev_vars, trust_vars, http_vars>>

\* app.py lines 35-48: reopen the buffer, difference, enhance, score
ElaAppDiff(w) ==
    /\ ela_job[w].impl = "app"
    /\ ela_pc[w] = "diff"
    /\ LET orig == ela_local[w].original
           d == IF orig.px >= ela_local[w].buffer
                THEN orig.px - ela_local[w].buffer
                ELSE ela_local[w].buffer - orig.px
       IN  ElaFinish(w, perform_ela_analysis(
                            [BaseImage EXCEPT !.jpeg_error = d]))
    /\ UNCHANGED <<temp_path, inodes, ela_job, sev_vars, trust_vars, http_vars>>

ElaNext ==
    \E w \in Workers :
        \/ ElaPyStart(w)
        \/ ElaPySave(w)
        \/ ElaPyOpen(w)
        \/ ElaPyDiff(w)
        \/ ElaPyExists(w)
        \/ ElaPyRemove(w)
        \/ ElaAppSave(w)
        \/ ElaAppDiff(w)

SpecEla == ElaInit /\ [][ElaNext]_vars

-----------------------------------------------------------------------------
(* Claims about the classifier *)

KnownIssueTypes == { s_accident, s_fire, s_road_block, s_pothole, s_garbage,
                     s_water_leak, s_other }

ClassifiedByApp == sev_call.fn = "app" /\ sev_ret # NoRet

C1_TableValue(key) ==
    CASE key = s_fire -> 95
      [] key = s_accident -> 90
      [] key = s_road_block -> 80
      [] key = s_water_leak -> 70
      [] key = s_pothole -> 60
      [] key = s_garbage -> 50
      [] key = s_other -> 40

\* C1: for every known issue type and every trust score t, app.py's
\* classifier returns the table value discounted by exactly one bracket
\* (t < 40: max(20, base-30); t < 60: max(30, base-15); t < 80:
\* max(40, base-5); else base), and priority HIGH at >= 85, MEDIUM at
\* >= 60, LOW otherwise; fire at 90 gives 95/HIGH, garbage at 35 gives 20/LOW.
C1_SeverityByBracket ==
    (ClassifiedByApp /\ lower(sev_call.issue_type) \in KnownIssueTypes) =>
        LET base == C1_TableValue(lower(sev_call.issue_type))
            t == sev_call.trust_score
            expected ==
                CASE t < 4000 -> Max(20, base - 30)
                  [] t >= 4000 /\ t < 6000 -> Max(30, base - 15)
                  [] t >= 6000 /\ t < 8000 -> Max(40, base - 5)
                  [] t >= 8000 -> base
        IN  /\ sev_ret.base_severity = expected
            /\ sev_ret.priority = (CASE expected >= 85 -> "HIGH"
                                     [] expected >= 60 /\ expected < 85 -> "MEDIUM"
                                     [] expected < 60 -> "LOW")
            /\ (sev_call.issue_type = s_fire /\ t = 9000) =>
                    sev_ret = [base_severity |-> 95, priority |-> "HIGH"]
            /\ (sev_call.issue_type = s_garbage /\ t = 3500) =>
                    sev_ret = [base_severity |-> 20, priority |-> "LOW"]

\* garbage at trust 35.00 has been classified 20/LOW
C1_Witness ==
    /\ ClassifiedByApp
    /\ sev_call.issue_type = s_garbage
    /\ sev_call.trust_score = 3500
    /\ sev_ret = [base_severity |-> 20, priority |-> "LOW"]

\* C2: for every trust score and every issue type, a classifier of the
\* repository returns 0 <= base_severity <= 100 and a priority among LOW,
\* MEDIUM, HIGH (never CRITICAL).
C2_RangeAndLabels ==
    sev_ret # NoRet =>
        /\ sev_ret.base_severity \in 0..100
        /\ sev_ret.priority \in {"LOW", "MEDIUM", "HIGH"}

\* C3: for a fixed issue type, t1 <= t2 implies
\* base_severity(t1) <= base_severity(t2), bracket boundaries and floors
\* included.
C3_Monotone ==
    (ClassifiedByApp /\ sev_prev # NoRet) =>
        /\ sev_prev.trust_score <= sev_call.trust_score =>
                sev_prev.base_severity <= sev_ret.base_severity
        /\ sev_call.trust_score <= sev_prev.trust_score =>
                sev_ret.base_severity <= sev_prev.base_severity

\* an unknown type classified at 39.99 (floor 20) and then at 40.00 (floor 30)
C3_Witness ==
    /\ ClassifiedByApp
    /\ sev_prev # NoRet
    /\ lower(sev_call.issue_type) \notin KnownIssueTypes
    /\ sev_prev.trust_score = 3999
    /\ sev_call.trust_score = 4000
    /\ sev_prev.base_severity = 20
    /\ sev_ret.base_severity = 30

-----------------------------------------------------------------------------
(* Claims about the analyzers and the aggregator *)

Abs(x) == IF x < 0 THEN -x ELSE x

Scored == trust_call.fn = "calculate_trust_score" /\ trust_ret # NoRet

\* C4: an issue-type string whose lower-cased form is not a known tag gets
\* what "other" gets, from the aggregator (multiplier 1.0) and from the
\* classifier (table severity 40): identical trust_score, base_severity and
\* priority.
C4_UnknownAsOther ==
    /\ (ClassifiedByApp /\ lower(sev_call.issue_type) \notin KnownIssueTypes) =>
            /\ sev_ret = calculate_severity_and_priority(sev_call.trust_score,
                                                         s_other)
            /\ sev_call.trust_score >= 8000 => sev_ret.base_severity = 40
    /\ (Scored /\ lower(trust_call.issue_type) \notin KnownIssueTypes) =>
            /\ trust_ret = calculate_trust_score(trust_call.image_cv,
                                                 trust_call.image_pil, s_other)
            /\ trust_ret.explanation.issue_type_weight = 100

\* an unknown, mixed-case type has been scored with multiplier 1.0
C4_Witness ==
    /\ Scored
    /\ trust_call.issue_type = <<"F","l","o","o","d">>
    /\ trust_ret.explanation.issue_type_weight = 100
    /\ trust_ret.trust_score > 0

\* the sub-scores of the scored call, the documented constant standing for
\* an analyzer that raised
C6_Ela == IF "ela" \in trust_call.image_cv.raises THEN 50 * ElaDen
          ELSE perform_ela_analysis(trust_call.image_cv)
C6_Metadata == IF trust_call.image_pil.exif_raises THEN 70 * ElaDen
               ELSE check_metadata(trust_call.image_pil)
C6_Shadow == IF "shadow" \in trust_call.image_cv.raises THEN 70 * ElaDen
             ELSE analyze_shadows(trust_call.image_cv)
C6_Quality == IF "quality" \in trust_call.image_cv.raises THEN 70 * ElaDen
              ELSE analyze_quality(trust_call.image_cv)

\* C6: an analyzer that fails internally returns its fallback constant (ELA
\* 50, metadata 70, shadow 70, quality 70); for any combination of failing
\* analyzers calculate_trust_score returns a result whose explanation
\* carries those constants and whose trust_score is the (multiplied,
\* clamped, rounded) weighted combination of them with the other sub-scores.
C6_FailuresAbsorbed ==
    /\ (trust_ret # NoRet /\ trust_call.fn = "perform_ela_analysis"
            /\ "ela" \in trust_call.image_cv.raises) =>
                trust_ret.score = 50 * ElaDen
    /\ (trust_ret # NoRet /\ trust_call.fn = "check_metadata"
            /\ trust_call.image_pil.exif_raises) =>
                trust_ret.score = 70 * ElaDen
    /\ (trust_ret # NoRet /\ trust_call.fn = "analyze_shadows"
            /\ "shadow" \in trust_call.image_cv.raises) =>
                trust_ret.score = 70 * ElaDen
    /\ (trust_ret # NoRet /\ trust_call.fn = "analyze_quality"
            /\ "quality" \in trust_call.image_cv.raises) =>
                trust_ret.score = 70 * ElaDen
    /\ Scored =>
        LET e == trust_ret.explanation
            exact == (35 * C6_Ela + 25 * C6_Metadata + 20 * C6_Shadow
                        + 20 * C6_Quality) * e.issue_type_weight
            clamped == Max(0, Min(100 * 10000 * ElaDen, exact))
        IN  /\ "ela" \in trust_call.image_cv.raises => e.ela_score = 5000
            /\ trust_call.image_pil.exif_raises => e.metadata_score = 7000
            /\ "shadow" \in trust_call.image_cv.raises => e.shadow_score = 7000
            /\ "quality" \in trust_call.image_cv.raises => e.quality_score = 7000
            /\ 2 * Abs(trust_ret.trust_score * 100 * ElaDen - clamped)
                    <= 100 * ElaDen

\* all four analyzers failed and the call still returned 63.00
C6_Witness ==
    /\ Scored
    /\ trust_call.image_cv.raises = AnalyzerNames
    /\ trust_call.image_pil.exif_raises
    /\ trust_call.issue_type = s_other
    /\ trust_ret.explanation.ela_score = 5000
    /\ trust_ret.explanation.metadata_score = 7000
    /\ trust_ret.explanation.shadow_score = 7000
    /\ trust_ret.explanation.quality_score = 7000
    /\ trust_ret.trust_score = 6300

C7_Multiplier(key) ==
    CASE key = s_accident -> 105
      [] key = s_fire -> 108
      [] key = s_road_block -> 102
      [] key = s_garbage -> 98
      [] OTHER -> 100

\* w * (0.35*ela + 0.25*metadata + 0.20*shadow + 0.20*quality) of the scored
\* call, times 10000 * ElaDen
C7_Product ==
    (35 * perform_ela_analysis(trust_call.image_cv)
        + 25 * check_metadata(trust_call.image_pil)
        + 20 * analyze_shadows(trust_call.image_cv)
        + 20 * analyze_quality(trust_call.image_cv))
    * C7_Multiplier(lower(trust_call.issue_type))

C7_Clamped == Max(0, Min(100 * 10000 * ElaDen, C7_Product))

\* C7 as stated: trust_score = clamp(w * weighted sum, 0, 100) exactly, in
\* [0,100], with explanation.issue_type_weight = w.
C7_ExactClamp ==
    Scored =>
        /\ trust_ret.trust_score * 100 * ElaDen = C7_Clamped
        /\ trust_ret.trust_score \in 0..10000
        /\ trust_ret.explanation.issue_type_weight
                = C7_Multiplier(lower(trust_call.issue_type))

\* C7 as amended: trust_score is clamp(w * weighted sum, 0, 100) rounded to
\* two decimal places (within half a hundredth of it, and a whole number of
\* hundredths), the multiplier applied before the clamp, so always in
\* [0,100]; explanation.issue_type_weight = w.
C7_RoundedClamp ==
    Scored =>
        /\ 2 * Abs(trust_ret.trust_score * 100 * ElaDen - C7_Clamped)
                <= 100 * ElaDen
        /\ trust_ret.trust_score \in 0..10000
        /\ C7_Product > 100 * 10000 * ElaDen => trust_ret.trust_score = 10000
        /\ trust_ret.explanation.issue_type_weight
                = C7_Multiplier(lower(trust_call.issue_type))

\* fire, all sub-scores at their best: 96 * 1.08 = 103.68 is clamped to 100
C7_Witness ==
    /\ Scored
    /\ lower(trust_call.issue_type) = s_fire
    /\ C7_Product > 100 * 10000 * ElaDen
    /\ trust_ret.trust_score = 10000
    /\ trust_ret.explanation.issue_type_weight = 108

\* number of EXIF entries tagged Software whose text names an editor
RECURSIVE C10_Matches(_)
C10_Matches(exif) ==
    IF exif = << >> THEN 0
    ELSE (IF /\ Head(exif)[1] = 305
             /\ \E ed \in {s_photoshop, s_gimp, s_paint, s_editor} :
                    Contains(lower(Head(exif)[2]), ed)
          THEN 1 ELSE 0) + C10_Matches(Tail(exif))

\* C10: check_metadata returns 60 when the metadata-capable view is absent
\* or carries no metadata; otherwise max(50, 100 - 25 per editing-software
\* field naming photoshop, gimp, paint or editor); 70 only on a processing
\* failure.
C10_MetadataScore ==
    (trust_call.fn = "check_metadata" /\ trust_ret # NoRet) =>
        LET src == trust_call.image_pil
            failure == src.kind = "image" /\ src.exif_raises
            absent == src.kind # "image"
        IN  trust_ret.score =
                ElaDen * (IF failure THEN 70
                          ELSE IF absent \/ src.exif = << >> THEN 60
                          ELSE Max(50, 100 - 25 * C10_Matches(src.exif)))

-----------------------------------------------------------------------------
(* Claims about the request pipeline *)

Answered == response # NoRet

FullResult ==
    /\ response.status = 200
    /\ DOMAIN response = {"status", "trust_score", "base_severity",
                          "priority", "explanation"}

\* C5: the only condition that ends a request in an error is a failed pixel
\* decode: when the pixel decode succeeds the response is a full result, and
\* an error response comes only from a failed pixel decode.
C5_OnlyDecodeFailureAborts ==
    Answered =>
        /\ request.body.imdecode = "ok" => FullResult
        /\ response.status # 200 => request.body.imdecode # "ok"

SameScoring(a, b) ==
    /\ a.trust_score = b.trust_score
    /\ a.base_severity = b.base_severity
    /\ a.priority = b.priority

-----------------------------------------------------------------------------
(* Claims about concurrent ELA *)

\* the score an invocation produces when it runs alone
C8_AloneScore(job) ==
    IF job.impl = "ela_py"
    THEN IF job.uploaded
         THEN Max(0, Min(100, 100 - Min(255, 10 * job.image.err)))
         ELSE 50
    ELSE Max(0, Min(100 * ElaDen,
                    100 * ElaDen - 20 * Min(255, 10 * job.image.err)))

\* C8: under every interleaving of concurrent ELA invocations each
\* invocation diffs against its own recompressed artifact, and its score
\* equals the score it produces when run alone.
C8_Isolated ==
    \A w \in Workers :
        ela_pc[w] = "done" =>
            /\ ela_local[w].score = C8_AloneScore(ela_job[w])
            /\ ela_local[w].buffer \in {-1, Recompress(ela_job[w].image)}

-----------------------------------------------------------------------------
(* Derived bounds of the classifier *)

\* C11: over all issue types and trust scores, app.py's base_severity is in
\* [20, 95]; priority is HIGH exactly when the issue type is fire or
\* accident and trust_score >= 60; garbage, other and every unknown type
\* are LOW at every trust score.
C11_SeverityRangeAndHigh ==
    ClassifiedByApp =>
        LET key == lower(sev_call.issue_type)
        IN  /\ sev_ret.base_severity >= 20
            /\ sev_ret.base_severity <= 95
            /\ sev_ret.priority = "HIGH" <=>
                    (key \in {s_fire, s_accident}
                        /\ sev_call.trust_score >= 6000)
            /\ (key \in {s_garbage, s_other} \/ key \notin KnownIssueTypes) =>
                    sev_ret.priority = "LOW"

\* accident at trust 60.00 lands exactly on the HIGH threshold, 85
C11_Witness ==
    /\ ClassifiedByApp
    /\ sev_call.issue_type = <<"A","c","c","i","d","e","n","t">>
    /\ sev_call.trust_score = 6000
    /\ sev_ret = [base_severity |-> 85, priority |-> "HIGH"]

====
